---------------------------- MODULE Spec2Model ----------------------------
(***************************************************************************)
(* Model of the mesh package of GoMeshController: the Controller's event   *)
(* dispatcher (Controller.Read) and its command issuer (the thirteen       *)
(* command methods and Controller.WriteData), over the two bulk endpoints  *)
(* epIn and epOut of the USB transport.                                    *)
(*                                                                         *)
(* Byte slices are sequences of numbers in 0..255; Go's index i is index   *)
(* i+1 here, and Go's buf[a:b] is SubSeq(buf, a+1, b).                     *)
(***************************************************************************)
EXTENDS Integers, Sequences, FiniteSets, TLC

(***************************************************************************)
(* Op codes for the Mesh Controller (the const block of the package).      *)
(***************************************************************************)
OpSetup == 0
OpSetupStatus == 1
OpAddKey == 2
OpAddKeyStatus == 3
OpUnprovisionedBeacon == 4
OpProvision == 5
OpNodeAdded == 6
OpConfigureNode == 7
OpConfigureNodeStatus == 8
OpSendMessage == 9
OpReset == 16
OpReboot == 17
OpNodeReset == 18
OpState == 19
OpConfigureElem == 20
OpConfigureElemStatus == 21
OpSendRecallMessage == 22
OpSendStoreMessage == 23
OpSendDeleteMessage == 24
OpSendBindMessage == 25
OpEvent == 32

(***************************************************************************)
(* Bounds of the model.                                                    *)
(***************************************************************************)
\* number of packets the dispatcher receives in one run
MaxFrames == 2
\* number of commands the caller issues in one run
MaxCalls == 1
\* number of times the application calls Open in one run
MaxOpens == 2

(***************************************************************************)
(* The inputs the environment supplies.                                    *)
(***************************************************************************)
\* epIn.Desc.MaxPacketSize of the bulk endpoint the device reports: the
\* full-speed bulk sizes that hold the longest frame of the wire table (17
\* bytes)
PacketSizes == {32, 64}

\* the maximum packet sizes a full-speed bulk endpoint descriptor can report
DescPacketSizes == {8, 16, 32, 64}

\* byte 0 of the packets the device sends: the six event opcodes, the two
\* reserved status opcodes, an outbound opcode and an undefined value
RecvOpcodes ==
    {OpSetupStatus, OpAddKeyStatus, OpUnprovisionedBeacon, OpNodeAdded,
     OpState, OpEvent, OpConfigureNodeStatus, OpConfigureElemStatus,
     OpSetup, 255}

\* the bytes that follow byte 0 in the packets the device sends
RecvPayloads ==
    { <<10, 0>>,
      <<52, 18, 1, 170>>,
      <<25, 138, 29, 13, 126, 209, 0, 0, 0, 0, 0, 0, 0, 0, 0, 7, 238>> }

\* outcomes of epIn.Read: nil, the three errors the package names as
\* transient, and the error of a detached device
TransientErrors == {"ErrorOverflow", "TransferNoDevice", "ErrorIO"}
FatalErrors == {"ErrorNoDevice"}
ReadErrors == {"nil"} \cup TransientErrors \cup FatalErrors

\* argument values of the command methods
U16Values == {0, 10, 4660}
StateValues == {0, 1}
Uuids ==
    { <<25, 138, 29, 13, 126, 209, 0, 0, 0, 0, 0, 0, 0, 0, 0, 0>>,
      <<1, 2, 3>> }

VARIABLES
    maxPacketSize,  \* controller.epIn.Desc.MaxPacketSize
    rpc,            \* position of Read: "read", "map" or "panicked"
    buf,            \* the buffer of the current iteration of Read
    err,            \* what epIn.Read returned in the current iteration
    fired,          \* handler invocations of the current iteration
    calls,          \* all handler invocations so far, in order
    frames,         \* all buffers epIn.Read has filled so far, in order
    wpc,            \* position of the caller: "idle", "write1", "sleep",
                    \* "write2" or "return"
    cmd,            \* the command method being executed
    data,           \* the frame handed to WriteData
    attempts,       \* outcomes of the epOut.Write calls of this command
    slept,          \* number of time.Sleep calls of this command
    wdRet,          \* what WriteData returned
    cmdRet,         \* what the command method returned to its caller
    ncalls,         \* commands issued so far
    epOutLog,       \* every epOut.Write so far: the goroutine and the
                    \* command that made it, its bytes and its outcome
    issued,         \* every call of a command method so far, in the order
                    \* of the calls: the goroutine and its number there
    opc,            \* position of Open: "idle", or the stage it is about to run
    ostages,        \* outcomes of the stages the current Open call has run
    oerr,           \* the variable err of Open
    openRet,        \* what the last Open call returned
    openLog,        \* what every Open call returned, and the outcomes of
                    \* its stages
    cin,            \* the number passed to toByteSlice
    cbytes,         \* the slice toByteSlice returned
    cout,           \* what binary.LittleEndian.Uint16 made of that slice
    hpc,            \* position of the Read goroutine inside the handler it
                    \* has called: "none", "body", "write1", "sleep",
                    \* "write2" or "return"
    running,        \* the handler invocation that has not returned yet
    hdata,          \* the frame the handler's command handed to WriteData
    hcalls          \* commands issued by handlers so far

readVars == <<maxPacketSize, rpc, buf, err, fired, calls, frames>>
writeVars ==
    <<wpc, cmd, data, attempts, slept, wdRet, cmdRet, ncalls, epOutLog, issued>>
openVars == <<opc, ostages, oerr, openRet, openLog>>
codecVars == <<cin, cbytes, cout>>
handlerVars == <<hpc, running, hdata, hcalls>>
vars == <<readVars, writeVars, openVars, codecVars, handlerVars>>

(***************************************************************************)
(* Frame Codec                                                             *)
(***************************************************************************)
\* the conversion byte(x) of an unsigned number: its low eight bits
Byte(x) == x % 256

\* x >> n of an unsigned number
ShiftRight(x, n) == x \div (2 ^ n)

\* binary.LittleEndian.PutUint16(b, v): b[0] = byte(v); b[1] = byte(v >> 8)
PutUint16(b, v) == [b EXCEPT ![1] = Byte(v), ![2] = Byte(ShiftRight(v, 8))]

\* an encoding with the high byte first
toByteSlice_BigEndian(imput) ==
    <<Byte(ShiftRight(imput, 8)), Byte(imput)>>

\* an encoding that forgets the shift of the second byte
toByteSlice_NoShift(imput) == <<Byte(imput), Byte(imput)>>

\* bytes := []byte{0x00, 0x00}; binary.LittleEndian.PutUint16(bytes, imput)
toByteSlice(imput) == PutUint16(<<0, 0>>, imput)

\* a decode with the two bytes in the other order
BigEndianUint16(b) == b[2] + 256 * b[1]

\* binary.LittleEndian.Uint16 of a two-byte slice
LittleEndianUint16(b) == b[1] + 256 * b[2]

\* make([]byte, n): n zero bytes
MakeBuf(n) == [i \in 1..n |-> 0]

\* copy(buf, pkt): the bytes of the packet over the front of the buffer
Fill(b, pkt) ==
    [i \in 1..Len(b) |-> IF i <= Len(pkt) THEN pkt[i] ELSE b[i]]

\* the values of a uint16
Uint16Values == 0..65535

\* toByteSlice is called with a uint16
CallToByteSlice ==
    /\ cbytes = <<>>
    /\ \E v \in Uint16Values :
          /\ cin' = v
          /\ cbytes' = toByteSlice(v)
    /\ UNCHANGED cout
    /\ UNCHANGED <<readVars, writeVars, openVars>>
    /\ UNCHANGED handlerVars

\* binary.LittleEndian.Uint16 is applied to the two bytes
DecodeUint16 ==
    /\ cbytes # <<>>
    /\ cout = -1
    /\ cout' = LittleEndianUint16(cbytes)
    /\ UNCHANGED <<cin, cbytes>>
    /\ UNCHANGED <<readVars, writeVars, openVars>>
    /\ UNCHANGED handlerVars

(***************************************************************************)
(* Event Dispatcher: Controller.Read                                       *)
(***************************************************************************)
\* the packets the device sends: nothing, or an opcode byte and a payload
RecvPackets ==
    {<<>>} \cup {<<op>> \o p : op \in RecvOpcodes, p \in RecvPayloads}

\* what one "if" of the loop body does: the handler invocations it makes,
\* and whether it faulted on an index out of range
Skip == [calls |-> <<>>, panicked |-> FALSE]
Panic == [calls |-> <<>>, panicked |-> TRUE]
Invoke(h, args) ==
    [calls |-> <<[handler |-> h, args |-> args]>>, panicked |-> FALSE]

\* if buf[0] == OpSetupStatus { onSetupStatus() }
IfSetupStatus(b) ==
    IF b[1] # OpSetupStatus THEN Skip
    ELSE Invoke("onSetupStatus", <<>>)

\* if buf[0] == OpAddKeyStatus { onAddKeyStatus(Uint16(buf[1:3])) }
IfAddKeyStatus(b) ==
    IF b[1] # OpAddKeyStatus THEN Skip
    ELSE IF Len(b) < 3 THEN Panic
    ELSE Invoke("onAddKeyStatus", <<LittleEndianUint16(SubSeq(b, 2, 3))>>)

\* the beacon branch slicing one byte too many
IfUnprovisionedBeacon_OneByteMore(b) ==
    IF b[1] # OpUnprovisionedBeacon THEN Skip
    ELSE IF Len(b) < 18 THEN Panic
    ELSE Invoke("onUnprovisionedBeacon", <<SubSeq(b, 2, 18)>>)

\* if buf[0] == OpUnprovisionedBeacon { onUnprovisionedBeacon(buf[1:17]) }
IfUnprovisionedBeacon(b) ==
    IF b[1] # OpUnprovisionedBeacon THEN Skip
    ELSE IF Len(b) < 17 THEN Panic
    ELSE Invoke("onUnprovisionedBeacon", <<SubSeq(b, 2, 17)>>)

\* the NodeAdded branch testing the opcode next to its own
IfNodeAdded_OnConfigureNode(b) ==
    IF b[1] # OpConfigureNode THEN Skip
    ELSE IF Len(b) < 3 THEN Panic
    ELSE Invoke("onNodeAdded", <<LittleEndianUint16(SubSeq(b, 2, 3))>>)

\* if buf[0] == OpNodeAdded { onNodeAdded(Uint16(buf[1:3])) }
IfNodeAdded(b) ==
    IF b[1] # OpNodeAdded THEN Skip
    ELSE IF Len(b) < 3 THEN Panic
    ELSE Invoke("onNodeAdded", <<LittleEndianUint16(SubSeq(b, 2, 3))>>)

\* the State branch taken for the reserved status opcode as well
IfState_OnElemStatusToo(b) ==
    IF b[1] # OpState /\ b[1] # OpConfigureElemStatus THEN Skip
    ELSE IF Len(b) < 4 THEN Panic
    ELSE Invoke("onState", <<LittleEndianUint16(SubSeq(b, 2, 3)), b[4]>>)

\* if buf[0] == OpState { onState(Uint16(buf[1:3]), buf[3]) }
IfState(b) ==
    IF b[1] # OpState THEN Skip
    ELSE IF Len(b) < 4 THEN Panic
    ELSE Invoke("onState", <<LittleEndianUint16(SubSeq(b, 2, 3)), b[4]>>)

\* the Event branch left with the condition of the branch above it too
IfEvent_OnStateToo(b) ==
    IF b[1] # OpEvent /\ b[1] # OpState THEN Skip
    ELSE IF Len(b) < 3 THEN Panic
    ELSE Invoke("onEvent", <<LittleEndianUint16(SubSeq(b, 2, 3))>>)

\* if buf[0] == OpEvent { onEvent(Uint16(buf[1:3])) }
IfEvent(b) ==
    IF b[1] # OpEvent THEN Skip
    ELSE IF Len(b) < 3 THEN Panic
    ELSE Invoke("onEvent", <<LittleEndianUint16(SubSeq(b, 2, 3))>>)

\* r, and then what follows it unless r faulted
Then(r, next) ==
    IF r.panicked THEN r
    ELSE [calls |-> r.calls \o next.calls, panicked |-> next.panicked]

\* a loop body that ends the loop on a byte 0 it has no handler for, as a
\* switch with a failing default would
MapToProvidedFunction_FaultsOnUnknown(b) ==
    IF Len(b) = 0 THEN Panic
    ELSE IF b[1] \notin {OpSetupStatus, OpAddKeyStatus, OpUnprovisionedBeacon,
                         OpNodeAdded, OpState, OpEvent} THEN Panic
    ELSE Then(IfSetupStatus(b),
         Then(IfAddKeyStatus(b),
         Then(IfUnprovisionedBeacon(b),
         Then(IfNodeAdded(b),
         Then(IfState(b),
              IfEvent(b))))))

\* the six ifs of the loop body, in the order of the source
MapToProvidedFunction(b) ==
    IF Len(b) = 0 THEN Panic
    ELSE Then(IfSetupStatus(b),
         Then(IfAddKeyStatus(b),
         Then(IfUnprovisionedBeacon(b),
         Then(IfNodeAdded(b),
         Then(IfState(b),
              IfEvent(b))))))

\* handlers started without waiting for them, so that a later invocation
\* overtakes the earlier ones
Deliver_Overtaking(log, invocations) == invocations \o log

\* the handlers are plain calls made inside the loop body: the invocations
\* of an iteration come after all those of the iterations before it
Deliver(log, invocations) == log \o invocations

\* what Read does with the error epIn.Read returned: it discards it
\* (the check of the error is commented out), so the loop body goes on
AfterEpInRead(e) == "map"

\* the packets of a device that sends each event frame several times with
\* different bytes after the payload of its opcode
TrailingPayloads ==
    { <<10, 0>>,
      <<10, 0, 0, 99>>,
      <<10, 0, 7>>,
      <<25, 138, 29, 13, 126, 209, 0, 0, 0, 0, 0, 0, 0, 0, 0, 7>>,
      <<25, 138, 29, 13, 126, 209, 0, 0, 0, 0, 0, 0, 0, 0, 0, 7, 238>> }

TrailingPackets ==
    {<<op>> \o p :
        op \in {OpSetupStatus, OpAddKeyStatus, OpUnprovisionedBeacon,
                OpNodeAdded, OpState, OpEvent},
        p \in TrailingPayloads}

\* buf := make([]byte, MaxPacketSize); controller.epIn.Read(buf), for a
\* device that sends one of the given packets, and a transfer that ends in
\* one of the given ways
ReceiveFrom(packets, errors) ==
    /\ rpc = "read"
    /\ Len(frames) < MaxFrames
    /\ \E pkt \in packets, e \in errors :
          /\ buf' = Fill(MakeBuf(maxPacketSize), pkt)
          /\ err' = e
          /\ rpc' = AfterEpInRead(e)
    /\ frames' = Append(frames, buf')
    /\ fired' = <<>>
    /\ UNCHANGED <<maxPacketSize, calls>>
    /\ UNCHANGED writeVars
    /\ UNCHANGED openVars
    /\ UNCHANGED codecVars
    /\ UNCHANGED handlerVars

\* a receive that may end in any of the ways epIn.Read can end
Receive(packets) == ReceiveFrom(packets, ReadErrors)

\* a receive from a device that sends any of the packets of RecvPackets
EpInRead == Receive(RecvPackets)

\* a receive from a device that varies the bytes after the payload
EpInReadTrailing == Receive(TrailingPackets)

\* the packets of a device that sends one frame of each kind: an opcode with
\* a handler, one with a payload and a handler, a reserved status opcode and
\* an undefined one
LoopPackets ==
    {<<op>> \o <<10, 0>> :
        op \in {OpSetupStatus, OpEvent, OpConfigureNodeStatus, 255}}

\* a receive from a device that sends one frame of each kind
EpInReadLoop == Receive(LoopPackets)

\* the rest of the loop body, and back to the top of the loop
Map ==
    /\ rpc = "map"
    /\ LET r == MapToProvidedFunction(buf) IN
          /\ fired' = r.calls
          /\ calls' = Deliver(calls, r.calls)
          /\ rpc' = IF r.panicked THEN "panicked" ELSE "read"
    /\ UNCHANGED <<maxPacketSize, buf, err, frames>>
    /\ UNCHANGED writeVars
    /\ UNCHANGED openVars
    /\ UNCHANGED codecVars
    /\ UNCHANGED handlerVars

(***************************************************************************)
(* Command Issuer: the command methods and Controller.WriteData            *)
(***************************************************************************)
ResetNode(addr) == <<OpNodeReset>> \o toByteSlice(addr)

Reboot == <<OpReboot>>

Reset == <<OpReset>>

\* SendMessage appending state after addr
SendMessage_AddrFirst(state, addr, appIdx) ==
    <<OpSendMessage>> \o toByteSlice(addr) \o <<state>> \o toByteSlice(appIdx)

SendMessage(state, addr, appIdx) ==
    <<OpSendMessage>> \o <<state>> \o toByteSlice(addr) \o toByteSlice(appIdx)

SendRecallMessage(sceneNumber, addr, appIdx) ==
    <<OpSendRecallMessage>> \o toByteSlice(sceneNumber) \o toByteSlice(addr)
        \o toByteSlice(appIdx)

\* SendStoreMessage left with the opcode of the method it was copied from
SendStoreMessage_RecallOpcode(sceneNumber, addr, appIdx) ==
    <<OpSendRecallMessage>> \o toByteSlice(sceneNumber) \o toByteSlice(addr)
        \o toByteSlice(appIdx)

SendStoreMessage(sceneNumber, addr, appIdx) ==
    <<OpSendStoreMessage>> \o toByteSlice(sceneNumber) \o toByteSlice(addr)
        \o toByteSlice(appIdx)

SendDeleteMessage(sceneNumber, addr, appIdx) ==
    <<OpSendDeleteMessage>> \o toByteSlice(sceneNumber) \o toByteSlice(addr)
        \o toByteSlice(appIdx)

SendBindMessage(sceneNumber, addr, appIdx) ==
    <<OpSendBindMessage>> \o toByteSlice(sceneNumber) \o toByteSlice(addr)
        \o toByteSlice(appIdx)

ConfigureNode(addr, appIdx) ==
    <<OpConfigureNode>> \o toByteSlice(addr) \o toByteSlice(appIdx)

ConfigureElem(groupAddr, nodeAddr, elemAddr, appIdx) ==
    <<OpConfigureElem>> \o toByteSlice(groupAddr) \o toByteSlice(nodeAddr)
        \o toByteSlice(elemAddr) \o toByteSlice(appIdx)

\* Provision sending the opcode of the beacon it answers
Provision_BeaconOpcode(uuid) == <<OpUnprovisionedBeacon>> \o uuid

Provision(uuid) == <<OpProvision>> \o uuid

AddKey(appIdx) == <<OpAddKey>> \o toByteSlice(appIdx)

Setup == <<OpSetup>>

\* a call of a command method: its name, its arguments (the numbers in the
\* order of the signature; for Provision the bytes of uuid) and the parms it
\* hands to WriteData
Command(n, a, p) == [name |-> n, args |-> a, parms |-> p]

CommandCalls ==
    {Command("Setup", <<>>, Setup),
     Command("Reset", <<>>, Reset),
     Command("Reboot", <<>>, Reboot)}
    \cup {Command("AddKey", <<i>>, AddKey(i)) : i \in U16Values}
    \cup {Command("ResetNode", <<a>>, ResetNode(a)) : a \in U16Values}
    \cup {Command("Provision", u, Provision(u)) : u \in Uuids}
    \cup {Command("ConfigureNode", <<a, i>>, ConfigureNode(a, i)) :
            a \in U16Values, i \in U16Values}
    \cup {Command("SendMessage", <<s, a, i>>, SendMessage(s, a, i)) :
            s \in StateValues, a \in U16Values, i \in U16Values}
    \cup {Command("SendRecallMessage", <<n, a, i>>, SendRecallMessage(n, a, i)) :
            n \in U16Values, a \in U16Values, i \in U16Values}
    \cup {Command("SendStoreMessage", <<n, a, i>>, SendStoreMessage(n, a, i)) :
            n \in U16Values, a \in U16Values, i \in U16Values}
    \cup {Command("SendDeleteMessage", <<n, a, i>>, SendDeleteMessage(n, a, i)) :
            n \in U16Values, a \in U16Values, i \in U16Values}
    \cup {Command("SendBindMessage", <<n, a, i>>, SendBindMessage(n, a, i)) :
            n \in U16Values, a \in U16Values, i \in U16Values}
    \cup {Command("ConfigureElem", <<g, n, e, i>>, ConfigureElem(g, n, e, i)) :
            g \in U16Values, n \in U16Values, e \in U16Values, i \in U16Values}

CommandNames == {c.name : c \in CommandCalls}

\* WriteData sleeping and retrying whether or not its first write succeeded
AfterFirstWrite_SleepsAnyway(ok) == [pc |-> "sleep", ret |-> "pending"]

\* WriteData writing a second time, without a delay, after a first write
\* that succeeded
AfterFirstWrite_WritesAgain(ok) ==
    IF ok THEN [pc |-> "write2", ret |-> "pending"]
    ELSE [pc |-> "sleep", ret |-> "pending"]

\* WriteData after its first epOut.Write: return nil when it succeeded,
\* time.Sleep and retry when it failed
AfterFirstWrite(ok) ==
    IF ok THEN [pc |-> "return", ret |-> "nil"]
    ELSE [pc |-> "sleep", ret |-> "pending"]

\* WriteData reporting the failure of the first write although the retry
\* succeeded
AfterSecondWrite_KeepsFirstError(ok) ==
    [pc |-> "return", ret |-> "Write failed"]

\* WriteData sleeping and retrying again after its retry failed
AfterSecondWrite_RetriesAgain(ok) ==
    IF ok THEN [pc |-> "return", ret |-> "nil"]
    ELSE [pc |-> "sleep", ret |-> "pending"]

\* WriteData after its second epOut.Write: errors.New("Write failed") when it
\* failed again, nil when it succeeded
AfterSecondWrite(ok) ==
    IF ok THEN [pc |-> "return", ret |-> "nil"]
    ELSE [pc |-> "return", ret |-> "Write failed"]

\* a command method that calls WriteData and drops what it returns
ReturnOfCommand_Dropped(name, wd) == "nil"

\* every command method ends in "return controller.WriteData(parms)"
ReturnOfCommand(name, wd) == wd

\* the caller calls one of the given command methods: it builds parms and
\* calls WriteData
Issue(commands) ==
    /\ wpc = "idle"
    /\ ncalls < MaxCalls
    /\ \E c \in commands :
          /\ cmd' = [name |-> c.name, args |-> c.args]
          /\ data' = c.parms
    /\ attempts' = <<>>
    /\ slept' = 0
    /\ wdRet' = "pending"
    /\ cmdRet' = "pending"
    /\ ncalls' = ncalls + 1
    /\ issued' = Append(issued, [by |-> "caller", call |-> ncalls'])
    /\ wpc' = "write1"
    /\ UNCHANGED epOutLog
    /\ UNCHANGED readVars
    /\ UNCHANGED openVars
    /\ UNCHANGED codecVars
    /\ UNCHANGED handlerVars

\* a caller that may call any command method with any argument
CallCommand == Issue(CommandCalls)

\* _, err := controller.epOut.Write(data); if err != nil { ... }
EpOutWrite1 ==
    /\ wpc = "write1"
    /\ \E ok \in BOOLEAN :
          /\ attempts' = Append(attempts, ok)
          /\ epOutLog' = Append(epOutLog, [by |-> "caller", call |-> ncalls,
                                        data |-> data, ok |-> ok])
          /\ wpc' = AfterFirstWrite(ok).pc
          /\ wdRet' = AfterFirstWrite(ok).ret
    /\ UNCHANGED <<cmd, data, slept, cmdRet, ncalls, issued>>
    /\ UNCHANGED readVars
    /\ UNCHANGED openVars
    /\ UNCHANGED codecVars
    /\ UNCHANGED handlerVars

\* time.Sleep(200 * time.Millisecond)
Sleep ==
    /\ wpc = "sleep"
    /\ slept' = slept + 1
    /\ wpc' = "write2"
    /\ UNCHANGED <<cmd, data, attempts, wdRet, cmdRet, ncalls, epOutLog, issued>>
    /\ UNCHANGED readVars
    /\ UNCHANGED openVars
    /\ UNCHANGED codecVars
    /\ UNCHANGED handlerVars

\* _, err = controller.epOut.Write(data); if err != nil { return error }
EpOutWrite2 ==
    /\ wpc = "write2"
    /\ \E ok \in BOOLEAN :
          /\ attempts' = Append(attempts, ok)
          /\ epOutLog' = Append(epOutLog, [by |-> "caller", call |-> ncalls,
                                        data |-> data, ok |-> ok])
          /\ wpc' = AfterSecondWrite(ok).pc
          /\ wdRet' = AfterSecondWrite(ok).ret
    /\ UNCHANGED <<cmd, data, slept, cmdRet, ncalls, issued>>
    /\ UNCHANGED readVars
    /\ UNCHANGED openVars
    /\ UNCHANGED codecVars
    /\ UNCHANGED handlerVars

\* WriteData has returned, and the command method returns to its caller
CommandReturn ==
    /\ wpc = "return"
    /\ cmdRet' = ReturnOfCommand(cmd.name, wdRet)
    /\ wpc' = "idle"
    /\ UNCHANGED <<cmd, data, attempts, slept, wdRet, ncalls, epOutLog, issued>>
    /\ UNCHANGED readVars
    /\ UNCHANGED openVars
    /\ UNCHANGED codecVars
    /\ UNCHANGED handlerVars

(***************************************************************************)
(* The application: the handlers it passes to Read, which runs in a        *)
(* goroutine of its own, and the command its main goroutine issues (the    *)
(* function main of the first revision of the package)                     *)
(***************************************************************************)
\* the packets of the device the application talks to: an event whose
\* handler issues a command, and one whose handler only prints
MainPackets ==
    {<<op>> \o <<10, 0>> : op \in {OpSetupStatus, OpEvent}}

\* controller.SendMessage(0x00, []byte{0x00, 0x0a}, []byte{0x00, 0x00}): the
\* address whose two bytes on the wire are 0x00, 0x0a
MainCommands ==
    {Command("SendMessage", <<0, 2560, 0>>, SendMessage(0, 2560, 0))}

\* the command the body of a handler calls: controller.AddKey in the handler
\* of SetupStatus, controller.ConfigureNode(addr, 0) in the handler of
\* NodeAdded, none in the handlers that only print
HandlerCommand(inv) ==
    CASE inv.handler = "onSetupStatus" ->
            <<Command("AddKey", <<0>>, AddKey(0))>>
      [] inv.handler = "onNodeAdded" ->
            <<Command("ConfigureNode", <<inv.args[1], 0>>,
                      ConfigureNode(inv.args[1], 0))>>
      [] OTHER -> <<>>

\* handlers started with "go": Read goes back to its receive at once
AfterInvoke_Go(invocations) == "read"

\* where Read is after the ifs: inside the handler it called, a plain
\* function call, or at the top of the loop when no if held
AfterInvoke(invocations) ==
    IF invocations = <<>> THEN "read" ELSE "handler"

\* a receive from the device the application talks to, which stays attached
EpInReadMain == ReceiveFrom(MainPackets, {"nil"})

\* the loop body up to the call of the handler of the if that holds
MapCall ==
    /\ rpc = "map"
    /\ LET r == MapToProvidedFunction(buf) IN
          /\ fired' = r.calls
          /\ calls' = Deliver(calls, r.calls)
          /\ rpc' = IF r.panicked THEN "panicked" ELSE AfterInvoke(r.calls)
          /\ IF r.calls = <<>>
                THEN UNCHANGED <<hpc, running>>
                ELSE hpc' = "body" /\ running' = r.calls
    /\ UNCHANGED <<maxPacketSize, buf, err, frames>>
    /\ UNCHANGED <<hdata, hcalls>>
    /\ UNCHANGED writeVars
    /\ UNCHANGED openVars
    /\ UNCHANGED codecVars

\* the body of the handler up to its call of a command method, which builds
\* parms and calls WriteData; or to its end when it calls none
HandlerBody ==
    /\ hpc = "body"
    /\ LET c == HandlerCommand(running[1]) IN
          IF c = <<>>
            THEN /\ hpc' = "return"
                 /\ UNCHANGED <<hdata, hcalls, issued>>
            ELSE /\ hpc' = "write1"
                 /\ hdata' = c[1].parms
                 /\ hcalls' = hcalls + 1
                 /\ issued' = Append(issued, [by |-> "Read", call |-> hcalls'])
    /\ UNCHANGED running
    /\ UNCHANGED <<wpc, cmd, data, attempts, slept, wdRet, cmdRet, ncalls, epOutLog>>
    /\ UNCHANGED readVars
    /\ UNCHANGED openVars
    /\ UNCHANGED codecVars

\* WriteData called from the handler: _, err := controller.epOut.Write(data)
HandlerWrite1 ==
    /\ hpc = "write1"
    /\ \E ok \in BOOLEAN :
          /\ epOutLog' = Append(epOutLog, [by |-> "Read", call |-> hcalls,
                                           data |-> hdata, ok |-> ok])
          /\ hpc' = AfterFirstWrite(ok).pc
    /\ UNCHANGED <<running, hdata, hcalls>>
    /\ UNCHANGED <<wpc, cmd, data, attempts, slept, wdRet, cmdRet, ncalls, issued>>
    /\ UNCHANGED readVars
    /\ UNCHANGED openVars
    /\ UNCHANGED codecVars

\* WriteData called from the handler: time.Sleep(200 * time.Millisecond)
HandlerSleep ==
    /\ hpc = "sleep"
    /\ hpc' = "write2"
    /\ UNCHANGED <<running, hdata, hcalls>>
    /\ UNCHANGED writeVars
    /\ UNCHANGED readVars
    /\ UNCHANGED openVars
    /\ UNCHANGED codecVars

\* WriteData called from the handler: _, err = controller.epOut.Write(data)
HandlerWrite2 ==
    /\ hpc = "write2"
    /\ \E ok \in BOOLEAN :
          /\ epOutLog' = Append(epOutLog, [by |-> "Read", call |-> hcalls,
                                           data |-> hdata, ok |-> ok])
          /\ hpc' = AfterSecondWrite(ok).pc
    /\ UNCHANGED <<running, hdata, hcalls>>
    /\ UNCHANGED <<wpc, cmd, data, attempts, slept, wdRet, cmdRet, ncalls, issued>>
    /\ UNCHANGED readVars
    /\ UNCHANGED openVars
    /\ UNCHANGED codecVars

\* the handler returns, and Read passes the ifs that are left, which do not
\* hold, to the top of the loop
HandlerReturn ==
    /\ hpc = "return"
    /\ hpc' = "none"
    /\ running' = <<>>
    /\ rpc' = IF rpc = "handler" THEN "read" ELSE rpc
    /\ UNCHANGED <<maxPacketSize, buf, err, fired, calls, frames>>
    /\ UNCHANGED <<hdata, hcalls>>
    /\ UNCHANGED writeVars
    /\ UNCHANGED openVars
    /\ UNCHANGED codecVars

\* the main goroutine calls controller.SendMessage
MainCall == Issue(MainCommands)

(***************************************************************************)
(* Controller construction: Open                                           *)
(***************************************************************************)
\* the stages of Open, in the order of the source
OpenStages ==
    <<"OpenDeviceWithVIDPID", "SetAutoDetach", "Config", "Interface",
      "InEndpoint", "OutEndpoint">>

\* Controller{}: no handle at all
EmptyController ==
    [device |-> "nil", config |-> "nil", intf |-> "nil",
     epIn |-> "nil", epOut |-> "nil"]

\* the struct Open makes from the handles it got; an endpoint call that
\* failed left a nil handle
MakeController(inOk, outOk) ==
    [device |-> "dev", config |-> "cfg", intf |-> "intf",
     epIn |-> IF inOk THEN "epIn" ELSE "nil",
     epOut |-> IF outOk THEN "epOut" ELSE "nil"]

\* the error Open makes when the check after a stage finds err != nil
OpenError(stage) ==
    CASE stage = "OpenDeviceWithVIDPID" -> "Unable to open controller"
      [] stage = "SetAutoDetach" -> "Unable to open controller"
      [] stage = "Config" -> "Unable to get config"
      [] stage = "Interface" -> "Unable to open interface"
      [] stage = "OutEndpoint" -> "Unable to open endpoints"

\* Open returns: the pair it returns, kept with the outcomes of its stages
OpenReturns(c, e, outcomes) ==
    /\ openRet' = [controller |-> c, err |-> e]
    /\ openLog' = Append(openLog, [controller |-> c, err |-> e, stages |-> outcomes])
    /\ opc' = "idle"

\* a stage followed by "if err != nil { return Controller{}, errors.New(..) }"
CheckedStage(stage, next) ==
    /\ \E ok \in BOOLEAN :
          /\ ostages' = Append(ostages, ok)
          /\ oerr' = IF ok THEN "nil" ELSE "err"
          /\ IF ok
                THEN opc' = next /\ UNCHANGED <<openRet, openLog>>
                ELSE OpenReturns(EmptyController, OpenError(stage), ostages')
    /\ UNCHANGED readVars
    /\ UNCHANGED writeVars
    /\ UNCHANGED codecVars
    /\ UNCHANGED handlerVars

\* Open is called: dev, err := ctx.OpenDeviceWithVIDPID(0x2fe3, 0x0100)
OpenDeviceWithVIDPID ==
    /\ opc = "idle"
    /\ Len(openLog) < MaxOpens
    /\ \E ok \in BOOLEAN :
          /\ ostages' = <<ok>>
          /\ oerr' = IF ok THEN "nil" ELSE "err"
          /\ IF ok
                THEN opc' = "SetAutoDetach" /\ UNCHANGED <<openRet, openLog>>
                ELSE OpenReturns(EmptyController,
                                 OpenError("OpenDeviceWithVIDPID"), ostages')
    /\ UNCHANGED readVars
    /\ UNCHANGED writeVars
    /\ UNCHANGED codecVars
    /\ UNCHANGED handlerVars

\* err = dev.SetAutoDetach(true)
SetAutoDetach ==
    /\ opc = "SetAutoDetach"
    /\ CheckedStage("SetAutoDetach", "Config")

\* cfg, err := dev.Config(1)
Config ==
    /\ opc = "Config"
    /\ CheckedStage("Config", "Interface")

\* intf, err := cfg.Interface(1, 0)
Interface ==
    /\ opc = "Interface"
    /\ CheckedStage("Interface", "InEndpoint")

\* epIn, err := intf.InEndpoint(2): no check of err follows it
InEndpoint ==
    /\ opc = "InEndpoint"
    /\ \E ok \in BOOLEAN :
          /\ ostages' = Append(ostages, ok)
          /\ oerr' = IF ok THEN "nil" ELSE "err"
    /\ opc' = "OutEndpoint"
    /\ UNCHANGED <<openRet, openLog>>
    /\ UNCHANGED readVars
    /\ UNCHANGED writeVars
    /\ UNCHANGED codecVars
    /\ UNCHANGED handlerVars

\* epOut, err := intf.OutEndpoint(1) assigns err again; then the check of
\* err, and the struct is made and returned
OutEndpoint ==
    /\ opc = "OutEndpoint"
    /\ \E ok \in BOOLEAN :
          /\ ostages' = Append(ostages, ok)
          /\ oerr' = IF ok THEN "nil" ELSE "err"
          /\ IF oerr' # "nil"
                THEN OpenReturns(EmptyController, OpenError("OutEndpoint"), ostages')
                ELSE OpenReturns(MakeController(ostages[5], ok), "nil", ostages')
    /\ UNCHANGED readVars
    /\ UNCHANGED writeVars
    /\ UNCHANGED codecVars
    /\ UNCHANGED handlerVars

(***************************************************************************)
(* Specifications                                                          *)
(***************************************************************************)
\* nothing has run yet: Read is at its first receive, no command and no
\* Open call has been made
InitRest ==
    /\ rpc = "read"
    /\ buf = <<>>
    /\ err = "nil"
    /\ fired = <<>>
    /\ calls = <<>>
    /\ frames = <<>>
    /\ wpc = "idle"
    /\ cmd = [name |-> "none", args |-> <<>>]
    /\ data = <<>>
    /\ attempts = <<>>
    /\ slept = 0
    /\ wdRet = "pending"
    /\ cmdRet = "pending"
    /\ ncalls = 0
    /\ epOutLog = <<>>
    /\ opc = "idle"
    /\ ostages = <<>>
    /\ oerr = "nil"
    /\ openRet = "pending"
    /\ openLog = <<>>
    /\ issued = <<>>
    /\ cin = 0
    /\ cbytes = <<>>
    /\ cout = -1
    /\ hpc = "none"
    /\ running = <<>>
    /\ hdata = <<>>
    /\ hcalls = 0

\* a Controller on an endpoint whose packet size holds every frame
Init ==
    /\ maxPacketSize \in PacketSizes
    /\ InitRest

\* a Controller on an endpoint of the largest full-speed bulk packet size
InitMain ==
    /\ maxPacketSize = 64
    /\ InitRest

\* a Controller on an endpoint of any full-speed bulk packet size
InitDesc ==
    /\ maxPacketSize \in DescPacketSizes
    /\ InitRest

ReadNext == EpInRead \/ Map

WriteNext == CallCommand \/ EpOutWrite1 \/ Sleep \/ EpOutWrite2 \/ CommandReturn

OpenNext ==
    \/ OpenDeviceWithVIDPID
    \/ SetAutoDetach
    \/ Config
    \/ Interface
    \/ InEndpoint
    \/ OutEndpoint

CodecNext == CallToByteSlice \/ DecodeUint16

Next == ReadNext \/ WriteNext \/ OpenNext \/ CodecNext

\* the dispatcher and the caller together
Spec == Init /\ [][Next]_vars

\* the dispatcher alone: Read running on a Controller
SpecRead == Init /\ [][ReadNext]_vars

\* the command issuer alone: one caller issuing commands
SpecWrite == Init /\ [][WriteNext]_vars

\* the construction alone: the application calling Open
SpecOpen == Init /\ [][OpenNext]_vars

\* the dispatcher alone, with a device that varies the bytes after the
\* payload
SpecTrail == Init /\ [][EpInReadTrailing \/ Map]_vars

\* the dispatcher alone, on an endpoint of any packet size
SpecDesc == InitDesc /\ [][ReadNext]_vars

\* the codec alone: a 16-bit number encoded and decoded
SpecCodec == Init /\ [][CodecNext]_vars

\* the steps of the application: Read and the handlers in one goroutine,
\* the command of main in another
MainNext ==
    \/ EpInReadMain
    \/ MapCall
    \/ HandlerBody
    \/ HandlerWrite1
    \/ HandlerSleep
    \/ HandlerWrite2
    \/ HandlerReturn
    \/ MainCall
    \/ EpOutWrite1
    \/ Sleep
    \/ EpOutWrite2
    \/ CommandReturn

\* the application: go controller.Read(...) and the command of main
SpecMain == InitMain /\ [][MainNext]_vars

\* the dispatcher alone, running for ever: epIn.Read returns whenever it is
\* called (the device goes on sending, or the read fails), and the loop body
\* is straight-line code that is not held up
SpecLoop ==
    /\ Init
    /\ [][EpInReadLoop \/ Map]_vars
    /\ WF_vars(EpInReadLoop)
    /\ WF_vars(Map)

(***************************************************************************)
(* Properties of the command issuer                                        *)
(***************************************************************************)
\* C1: whatever frame was passed to WriteData, when its first transport
\* write failed and its second succeeded, WriteData returns no error.
C1_RetryMasksOneFailure ==
    attempts = <<FALSE, TRUE>> => wdRet = "nil"

\* a WriteData call with a failed first write and a successful retry has
\* returned
C1_Witness ==
    /\ wpc = "return"
    /\ attempts = <<FALSE, TRUE>>
    /\ slept = 1
    /\ wdRet = "nil"

\* the epOut.Write calls of the current command, from the transport's log
WritesOfCall == SelectSeq(epOutLog, LAMBDA w : w.call = ncalls)

\* C2: when both the first and the second transport write fail, WriteData
\* returns the write-failure error, and the call makes exactly two write
\* attempts and never a third.
C2_TwoFailuresFail ==
    /\ Len(attempts) <= 2
    /\ Len(WritesOfCall) = Len(attempts)
    /\ (Len(attempts) >= 2 /\ ~attempts[1] /\ ~attempts[2]) =>
          /\ wdRet = "Write failed"
          /\ wpc \in {"return", "idle"}
          /\ Len(WritesOfCall) = 2

\* a WriteData call whose two writes failed has returned to the command
C2_Witness ==
    /\ wpc = "idle"
    /\ attempts = <<FALSE, FALSE>>
    /\ wdRet = "Write failed"
    /\ Len(epOutLog) = 2

\* the thirteen command methods
TheCommands ==
    {"Setup", "AddKey", "Provision", "ConfigureNode", "ConfigureElem",
     "SendMessage", "SendRecallMessage", "SendStoreMessage",
     "SendDeleteMessage", "SendBindMessage", "ResetNode", "Reset", "Reboot"}

\* C3: each of the thirteen command methods returns a failure to its caller
\* when none of its write attempts succeeded, and success only when one of
\* them succeeded.
C3_CommandsReportFailure ==
    /\ CommandNames = TheCommands
    /\ (wpc = "idle" /\ ncalls > 0) =>
          /\ cmd.name \in TheCommands
          /\ cmdRet \in {"nil", "Write failed"}
          /\ cmdRet = "nil" <=> (\E i \in 1..Len(attempts) : attempts[i])
          /\ cmdRet = "Write failed" <=>
                (Len(attempts) = 2 /\ \A i \in 1..2 : ~attempts[i])

\* ConfigureElem has returned the failure of both of its writes
C3_Witness ==
    /\ wpc = "idle"
    /\ cmd.name = "ConfigureElem"
    /\ attempts = <<FALSE, FALSE>>
    /\ cmdRet = "Write failed"

(***************************************************************************)
(* Properties of the event dispatcher                                      *)
(***************************************************************************)
\* an iteration of the loop has ended: the buffer epIn.Read filled has
\* passed the six ifs
IterationDone == rpc = "read" /\ frames # <<>>

\* the handlers invoked in the current iteration, by name
FiredHandlers == [i \in 1..Len(fired) |-> fired[i].handler]

\* C4: the dispatcher routes a received buffer by its byte 0 and invokes no
\* other handler for it: 0x01 onSetupStatus, 0x03 onAddKeyStatus, 0x04
\* onUnprovisionedBeacon, 0x06 onNodeAdded, 0x13 onState, 0x20 onEvent.
C4_RoutesByOpcode ==
    IterationDone =>
        /\ buf[1] = 1 => FiredHandlers = <<"onSetupStatus">>
        /\ buf[1] = 3 => FiredHandlers = <<"onAddKeyStatus">>
        /\ buf[1] = 4 => FiredHandlers = <<"onUnprovisionedBeacon">>
        /\ buf[1] = 6 => FiredHandlers = <<"onNodeAdded">>
        /\ buf[1] = 19 => FiredHandlers = <<"onState">>
        /\ buf[1] = 32 => FiredHandlers = <<"onEvent">>

\* a NodeAdded buffer has been routed to onNodeAdded
C4_Witness ==
    /\ IterationDone
    /\ buf[1] = 6
    /\ FiredHandlers = <<"onNodeAdded">>

\* C5: for an Event buffer onEvent gets the address byte1 + 256*byte2 (bytes
\* 0x0A, 0x00 give 10) and no other handler fires; onAddKeyStatus and
\* onNodeAdded get the same decode of bytes 1-2, onState gets it with byte 3
\* as its state, and onUnprovisionedBeacon gets bytes 1 to 16 unchanged.
C5_DecodesPayload ==
    IterationDone =>
        /\ buf[1] = 32 =>
              fired = <<[handler |-> "onEvent", args |-> <<buf[2] + 256 * buf[3]>>]>>
        /\ (buf[1] = 32 /\ buf[2] = 10 /\ buf[3] = 0) =>
              fired = <<[handler |-> "onEvent", args |-> <<10>>]>>
        /\ buf[1] = 3 =>
              fired = <<[handler |-> "onAddKeyStatus",
                         args |-> <<buf[2] + 256 * buf[3]>>]>>
        /\ buf[1] = 6 =>
              fired = <<[handler |-> "onNodeAdded",
                         args |-> <<buf[2] + 256 * buf[3]>>]>>
        /\ buf[1] = 19 =>
              fired = <<[handler |-> "onState",
                         args |-> <<buf[2] + 256 * buf[3], buf[4]>>]>>
        /\ buf[1] = 4 =>
              fired = <<[handler |-> "onUnprovisionedBeacon",
                         args |-> <<[i \in 1..16 |-> buf[i + 1]]>>]>>

\* the buffer 0x20 0x0A 0x00 has been delivered to onEvent as address 10
C5_Witness ==
    /\ IterationDone
    /\ buf[1] = 32 /\ buf[2] = 10 /\ buf[3] = 0
    /\ fired = <<[handler |-> "onEvent", args |-> <<10>>]>>

\* the six opcodes the dispatcher has a handler for
EventOpcodes == {1, 3, 4, 6, 19, 32}

\* C6: for a buffer whose byte 0 is none of 0x01, 0x03, 0x04, 0x06, 0x13,
\* 0x20, the rest of the loop body invokes no handler and the dispatcher is
\* back at the receive: it has not returned and has not faulted.
C6_UnknownOpcodeIgnored ==
    [][(rpc = "map" /\ buf[1] \notin EventOpcodes) =>
          /\ rpc' = "read"
          /\ fired' = <<>>
          /\ calls' = calls
          /\ err' = err]_vars

\* a buffer with the reserved opcode 0x08 has passed the loop body, no
\* handler was invoked, and the dispatcher is at the receive
C6_Witness ==
    /\ IterationDone
    /\ buf[1] = 8
    /\ fired = <<>>

\* C7, as stated: in every iteration of the loop exactly one handler is
\* invoked.
C7_ExactlyOneHandler ==
    IterationDone => Len(fired) = 1

\* C7, amended: in every iteration of the loop at most one handler is
\* invoked: exactly one when byte 0 is one of the six event opcodes, none
\* otherwise.
C7_AtMostOneHandler ==
    IterationDone =>
        /\ Len(fired) <= 1
        /\ Len(fired) = 1 <=> buf[1] \in EventOpcodes

\* one iteration for a State buffer: one handler invoked
C7_Witness ==
    /\ IterationDone
    /\ buf[1] = 19
    /\ Len(fired) = 1

\* the invocation the wire table asks for a received buffer: none for an
\* opcode that is not an event
ExpectedInvocations(b) ==
    CASE b[1] = 1 -> <<[handler |-> "onSetupStatus", args |-> <<>>]>>
      [] b[1] = 3 -> <<[handler |-> "onAddKeyStatus", args |-> <<b[2] + 256 * b[3]>>]>>
      [] b[1] = 4 -> <<[handler |-> "onUnprovisionedBeacon", args |-> <<SubSeq(b, 2, 17)>>]>>
      [] b[1] = 6 -> <<[handler |-> "onNodeAdded", args |-> <<b[2] + 256 * b[3]>>]>>
      [] b[1] = 19 -> <<[handler |-> "onState", args |-> <<b[2] + 256 * b[3], b[4]>>]>>
      [] b[1] = 32 -> <<[handler |-> "onEvent", args |-> <<b[2] + 256 * b[3]>>]>>
      [] OTHER -> <<>>

RECURSIVE ExpectedDelivery(_)
ExpectedDelivery(fs) ==
    IF fs = <<>> THEN <<>>
    ELSE ExpectedDelivery(SubSeq(fs, 1, Len(fs) - 1))
            \o ExpectedInvocations(fs[Len(fs)])

\* the received buffers that have passed the loop body
DispatchedFrames ==
    IF rpc = "map" THEN SubSeq(frames, 1, Len(frames) - 1) ELSE frames

\* C8: the sequence of handler invocations, with their arguments, is the
\* sequence of the received buffers with an event opcode, in the order of
\* their arrival: none skipped, merged or delivered after a later one.
C8_DeliveryInArrivalOrder ==
    calls = ExpectedDelivery(DispatchedFrames)

\* an Event buffer and then a SetupStatus buffer have been delivered, in
\* that order
C8_Witness ==
    /\ IterationDone
    /\ Len(frames) = 2
    /\ frames[1][1] = 32 /\ frames[2][1] = 1
    /\ Len(calls) = 2
    /\ calls[1].handler = "onEvent" /\ calls[2].handler = "onSetupStatus"

\* C9: after a receive that failed with a fatal error the dispatcher loop
\* has ended and Read has returned.
C9_FatalErrorEndsRead ==
    (frames # <<>> /\ err \in FatalErrors) => rpc = "returned"

\* C10: in an iteration whose receive failed with a transient error no
\* handler is invoked, whatever the buffer holds.
C10_TransientErrorDiscards ==
    (IterationDone /\ err \in TransientErrors) => fired = <<>>

(***************************************************************************)
(* Properties of Open                                                      *)
(***************************************************************************)
\* the Controller holds every handle
Usable(c) == \A f \in DOMAIN c : c[f] # "nil"

\* C11: Open returns an error, and no usable Controller, whenever one of its
\* six stages failed; it returns success only if all six succeeded.
C11_OpenFailsWhenAStageFails ==
    \A k \in 1..Len(openLog) :
        LET r == openLog[k] IN
            /\ (\E i \in 1..Len(r.stages) : ~r.stages[i]) =>
                  (r.err # "nil" /\ ~Usable(r.controller))
            /\ r.err = "nil" =>
                  (Len(r.stages) = 6 /\ \A i \in 1..6 : r.stages[i])

\* the stage an Open call failed at, as the claim groups them: the two
\* endpoint calls are one stage; "none" when no stage failed
FailedStage(r) ==
    IF \A i \in 1..Len(r.stages) : r.stages[i] THEN "none"
    ELSE LET i == CHOOSE j \in 1..Len(r.stages) :
                     ~r.stages[j] /\ \A h \in 1..(j - 1) : r.stages[h]
         IN IF i >= 5 THEN "endpoints" ELSE OpenStages[i]

\* C12: failures of Open at two different stages never give the same
\* error, and no stage is run twice in one call.
C12_DistinctErrorPerStage ==
    /\ Len(ostages) <= 6
    /\ \A k \in 1..Len(openLog), l \in 1..Len(openLog) :
          (/\ FailedStage(openLog[k]) # "none"
           /\ FailedStage(openLog[l]) # "none"
           /\ FailedStage(openLog[k]) # FailedStage(openLog[l]))
          => openLog[k].err # openLog[l].err

(***************************************************************************)
(* Properties of the frame codec                                           *)
(***************************************************************************)
\* the payload layout of the outbound opcodes in the wire table: the widths
\* of the fields, in bytes, by command
FieldWidths(name) ==
    CASE name \in {"Setup", "Reset", "Reboot"} -> <<>>
      [] name \in {"AddKey", "ResetNode"} -> <<2>>
      [] name = "Provision" -> <<16>>
      [] name = "ConfigureNode" -> <<2, 2>>
      [] name = "SendMessage" -> <<1, 2, 2>>
      [] name \in {"SendRecallMessage", "SendStoreMessage",
                   "SendDeleteMessage", "SendBindMessage"} -> <<2, 2, 2>>
      [] name = "ConfigureElem" -> <<2, 2, 2, 2>>

\* the fields of a payload read back by the layout: a two-byte field with
\* the decode of the dispatcher, the bytes of any other field as they are
RECURSIVE DecodeFields(_, _)
DecodeFields(widths, bytes) ==
    IF widths = <<>> THEN <<>>
    ELSE LET w == Head(widths) IN
         (IF w = 2 THEN <<LittleEndianUint16(SubSeq(bytes, 1, 2))>>
                   ELSE SubSeq(bytes, 1, w))
         \o DecodeFields(Tail(widths), SubSeq(bytes, w + 1, Len(bytes)))

\* the field values the wire table allows: a uuid has 16 bytes
ValidFields(c) == c.name = "Provision" => Len(c.args) = 16

\* every command frame, read back by the layout of its opcode, gives the
\* arguments of the call
OutboundRoundTrip ==
    \A c \in CommandCalls :
        ValidFields(c) =>
            DecodeFields(FieldWidths(c.name), Tail(c.parms)) = c.args

\* the handler invocations the dispatcher makes for a packet
InvocationsFor(n, pkt) == MapToProvidedFunction(Fill(MakeBuf(n), pkt)).calls

\* every event frame, built by the layout of its opcode with toByteSlice for
\* its 16-bit fields, reaches its handler with the fields it was built from
InboundRoundTrip ==
    \A n \in PacketSizes :
        /\ InvocationsFor(n, <<1>>) = <<[handler |-> "onSetupStatus", args |-> <<>>]>>
        /\ \A v \in U16Values \cup {0, 255, 256, 65535} :
              /\ InvocationsFor(n, <<3>> \o toByteSlice(v))
                    = <<[handler |-> "onAddKeyStatus", args |-> <<v>>]>>
              /\ InvocationsFor(n, <<6>> \o toByteSlice(v))
                    = <<[handler |-> "onNodeAdded", args |-> <<v>>]>>
              /\ InvocationsFor(n, <<32>> \o toByteSlice(v))
                    = <<[handler |-> "onEvent", args |-> <<v>>]>>
              /\ \A st \in StateValues \cup {255} :
                    InvocationsFor(n, <<19>> \o toByteSlice(v) \o <<st>>)
                        = <<[handler |-> "onState", args |-> <<v, st>>]>>
        /\ \A u \in {x \in Uuids : Len(x) = 16} :
              InvocationsFor(n, <<4>> \o u)
                  = <<[handler |-> "onUnprovisionedBeacon", args |-> <<u>>]>>

\* C13: decoding an encoded frame returns the fields it was encoded from,
\* for every opcode of the wire table; and for every 16-bit v the decode the
\* dispatcher uses, applied to toByteSlice(v), returns v.
C13_RoundTrip ==
    /\ cout # -1 => (cout = cin /\ Len(cbytes) = 2)
    /\ OutboundRoundTrip
    /\ InboundRoundTrip

\* 65535 has been encoded as 0xFF 0xFF and decoded back
C13_Witness ==
    /\ cin = 65535
    /\ cbytes = <<255, 255>>
    /\ cout = 65535

\* the bytes of field k of a payload laid out by widths
FieldBytes(payload, widths, k) ==
    LET RECURSIVE Offset(_)
        Offset(j) == IF j = 0 THEN 0 ELSE Offset(j - 1) + widths[j]
    IN SubSeq(payload, Offset(k - 1) + 1, Offset(k))

\* every 16-bit field of every command frame holds the low byte of its
\* argument and then the high byte
CommandFieldsLittleEndian ==
    \A c \in CommandCalls :
        LET widths == FieldWidths(c.name) IN
            \A k \in 1..Len(widths) :
                widths[k] = 2 =>
                    FieldBytes(Tail(c.parms), widths, k)
                        = <<c.args[k] % 256, (c.args[k] \div 256) % 256>>

\* C14: for every v in 0..65535, toByteSlice(v) is the two bytes v mod 256
\* and (v div 256) mod 256, and every 16-bit field of every command frame is
\* encoded that way.
C14_LittleEndianLaw ==
    /\ cbytes # <<>> => cbytes = <<cin % 256, (cin \div 256) % 256>>
    /\ CommandFieldsLittleEndian

\* 0x1234 has been encoded as 0x34 0x12
C14_Witness ==
    /\ cin = 4660
    /\ cbytes = <<52, 18>>

(***************************************************************************)
(* Properties of the command frames                                        *)
(***************************************************************************)
\* the frames the transport has been handed by the current command
FramesWritten == [i \in 1..Len(WritesOfCall) |-> WritesOfCall[i].data]

\* the two bytes of a 16-bit field on the wire
Wire16(v) == <<v % 256, (v \div 256) % 256>>

\* C15: SendMessage(state, addr, appIdx) hands the transport the six bytes
\* 0x09, state, addr low, addr high, appIdx low, appIdx high; for
\* SendMessage(0x00, 0x000A, 0x0000) they are 0x09 0x00 0x0A 0x00 0x00 0x00.
C15_SendMessageFrame ==
    cmd.name = "SendMessage" =>
        \A i \in 1..Len(FramesWritten) :
            /\ Len(FramesWritten[i]) = 6
            /\ FramesWritten[i] =
                  <<9, cmd.args[1]>> \o Wire16(cmd.args[2]) \o Wire16(cmd.args[3])
            /\ cmd.args = <<0, 10, 0>> => FramesWritten[i] = <<9, 0, 10, 0, 0, 0>>

\* SendMessage(0x00, 0x000A, 0x0000) has written its frame
C15_Witness ==
    /\ cmd.name = "SendMessage"
    /\ cmd.args = <<0, 10, 0>>
    /\ FramesWritten = << <<9, 0, 10, 0, 0, 0>> >>

\* C16: Provision(uuid) with a uuid of 16 bytes hands the transport 17 bytes:
\* 0x05 and then the 16 bytes of uuid, unchanged and in order.
C16_ProvisionFrame ==
    (cmd.name = "Provision" /\ Len(cmd.args) = 16) =>
        \A i \in 1..Len(FramesWritten) :
            /\ Len(FramesWritten[i]) = 17
            /\ FramesWritten[i][1] = 5
            /\ \A k \in 1..16 : FramesWritten[i][k + 1] = cmd.args[k]

\* Provision has written the frame of the uuid 19 8a 1d 0d 7e d1 00 ...
C16_Witness ==
    /\ cmd.name = "Provision"
    /\ cmd.args = <<25, 138, 29, 13, 126, 209, 0, 0, 0, 0, 0, 0, 0, 0, 0, 0>>
    /\ Len(FramesWritten) = 1
    /\ FramesWritten[1] =
          <<5, 25, 138, 29, 13, 126, 209, 0, 0, 0, 0, 0, 0, 0, 0, 0, 0>>

\* the sum of the widths of the fields of a command
RECURSIVE SumOf(_)
SumOf(widths) ==
    IF widths = <<>> THEN 0 ELSE Head(widths) + SumOf(Tail(widths))

\* C17: the frame a command hands the transport has the length 1 plus the
\* sum of its opcode's field widths, for every argument the method accepts:
\* 1, 3, 5, 6, 7, 9 and, for Provision, 17.
C17_FrameLengthConstant ==
    \A i \in 1..Len(FramesWritten) :
        Len(FramesWritten[i]) = 1 + SumOf(FieldWidths(cmd.name))

\* the opcode byte of each command in the wire table
WireOpcode(name) ==
    CASE name = "Setup" -> 0
      [] name = "AddKey" -> 2
      [] name = "Provision" -> 5
      [] name = "ConfigureNode" -> 7
      [] name = "SendMessage" -> 9
      [] name = "Reset" -> 16
      [] name = "Reboot" -> 17
      [] name = "ResetNode" -> 18
      [] name = "ConfigureElem" -> 20
      [] name = "SendRecallMessage" -> 22
      [] name = "SendStoreMessage" -> 23
      [] name = "SendDeleteMessage" -> 24
      [] name = "SendBindMessage" -> 25

\* the arguments of a command on the wire, in the order of the table: a
\* one-byte field and the bytes of a uuid as they are, a 16-bit field as its
\* low and high byte
RECURSIVE WireFields(_, _)
WireFields(widths, args) ==
    IF widths = <<>> \/ args = <<>> THEN args
    ELSE IF Head(widths) = 2
         THEN Wire16(Head(args)) \o WireFields(Tail(widths), Tail(args))
         ELSE IF Head(widths) = 1
              THEN <<Head(args)>> \o WireFields(Tail(widths), Tail(args))
              ELSE args

\* two calls whose frames start with the same byte are calls of the same
\* command
OpcodesNotShared ==
    \A c \in CommandCalls, d \in CommandCalls :
        c.parms[1] = d.parms[1] => c.name = d.name

\* C18: the frame of each command is its own opcode byte of the wire table
\* and then its fields in the order of the table; no two commands use the
\* same opcode byte.
C18_FrameIsOpcodeThenFields ==
    /\ \A i \in 1..Len(FramesWritten) :
          FramesWritten[i] =
              <<WireOpcode(cmd.name)>> \o WireFields(FieldWidths(cmd.name), cmd.args)
    /\ OpcodesNotShared

\* ConfigureElem(0x000A, 0x1234, 0x0000, 0x000A) has written its frame
C18_Witness ==
    /\ cmd.name = "ConfigureElem"
    /\ cmd.args = <<10, 4660, 0, 10>>
    /\ FramesWritten = << <<20, 10, 0, 52, 18, 0, 0, 10, 0>> >>

(***************************************************************************)
(* Properties of the dispatcher's buffer                                   *)
(***************************************************************************)
\* C19: whatever the buffer holds and whatever maximum packet size the
\* endpoint descriptor reports, the loop body never indexes or slices
\* outside the buffer, so that the loop is never aborted by a fault.
C19_DispatcherNeverFaults ==
    rpc # "panicked"

\* the places of the payload bytes the wire table defines for an event
\* opcode: none for 0x01, bytes 1-2 for 0x03, 0x06 and 0x20, bytes 1-3 for
\* 0x13, bytes 1-16 for 0x04
DefinedPlaces(op) ==
    CASE op = 1 -> {}
      [] op \in {3, 6, 32} -> 2..3
      [] op = 19 -> 2..4
      [] op = 4 -> 2..17

\* two buffers with the same event opcode and the same defined payload
AgreeOnFrame(a, b) ==
    /\ a[1] = b[1]
    /\ a[1] \in EventOpcodes
    /\ \A i \in DefinedPlaces(a[1]) : a[i] = b[i]

\* the invocations made for the first of two received buffers: those made
\* before the ones of the second
FiredForFirst == SubSeq(calls, 1, Len(calls) - Len(fired))

\* C20: two received buffers that agree on byte 0 and on the payload bytes
\* defined for that opcode cause the same handler to be invoked with equal
\* arguments, whatever their other bytes are.
C20_TrailingBytesIgnored ==
    (IterationDone /\ Len(frames) = 2 /\ AgreeOnFrame(frames[1], frames[2])) =>
        /\ Len(fired) = 1
        /\ FiredForFirst = fired

\* two beacon buffers that differ in the byte after the uuid have been
\* delivered with the same uuid
C20_Witness ==
    /\ IterationDone
    /\ Len(frames) = 2
    /\ frames[1][1] = 4 /\ frames[2][1] = 4
    /\ frames[1][18] # frames[2][18]
    /\ AgreeOnFrame(frames[1], frames[2])
    /\ Len(calls) = 2
    /\ calls[1] = calls[2]

(***************************************************************************)
(* Properties of the retry policy and of the loop                          *)
(***************************************************************************)
\* C21: a WriteData call whose first write succeeded makes no second write
\* and no time.Sleep; the one time.Sleep of a call comes after a failed
\* first write and before the retry, and the retry writes the bytes the
\* first attempt wrote.
C21_SingleWriteOnSuccess ==
    /\ Len(WritesOfCall) = Len(attempts)
    /\ slept \in {0, 1}
    /\ (attempts # <<>> /\ attempts[1]) => (Len(attempts) = 1 /\ slept = 0)
    /\ slept = 1 => (attempts # <<>> /\ ~attempts[1])
    /\ wpc = "sleep" => (Len(attempts) = 1 /\ slept = 0)
    /\ Len(attempts) = 2 =>
          /\ slept = 1
          /\ WritesOfCall[2].data = WritesOfCall[1].data
          /\ WritesOfCall[1].data = data

\* a command whose first write succeeded has returned after that one write
C21_Witness ==
    /\ wpc = "idle"
    /\ ncalls > 0
    /\ attempts = <<TRUE>>
    /\ slept = 0
    /\ Len(WritesOfCall) = 1
    /\ cmdRet = "nil"

\* C22: Read has no terminal state: it is always either at its receive or in
\* the loop body; after every received buffer, whatever its byte 0 (an
\* opcode with a handler, a reserved one or an unknown one), it comes back to
\* the top of the loop and makes the next receive.
C22_LoopNeverEnds ==
    /\ [](rpc \in {"read", "map"})
    /\ (rpc = "map") ~> (rpc = "read")
    /\ \A n \in 1..(MaxFrames - 1) :
          (rpc = "map" /\ Len(frames) = n) ~> (Len(frames) = n + 1)

\* after a successful receive of a frame with an unknown opcode and one of a
\* frame with a reserved opcode, Read is at its next receive
C22_Witness ==
    /\ rpc = "read"
    /\ Len(frames) = 2
    /\ err = "nil"
    /\ frames[1][1] = 255
    /\ frames[2][1] = OpConfigureNodeStatus
    /\ calls = <<>>

(***************************************************************************)
(* Properties of the application: Read, its handlers and the callers       *)
(***************************************************************************)
\* a handler that Read has called has not returned yet
HandlerRunning == hpc # "none"

\* C23: while a handler is running, also one that issues a command and
\* waits in the time.Sleep of WriteData, and whatever the other goroutine
\* does, Read is inside that one call: no step receives a buffer and none
\* invokes a handler; a receive or an invocation is made only when no
\* handler is running.
C23_HandlersNeverOverlap ==
    [][/\ HandlerRunning => (rpc = "handler" /\ Len(running) = 1)
       /\ HandlerRunning => (frames' = frames /\ calls' = calls)
       /\ (frames' # frames \/ calls' # calls) => ~HandlerRunning
       /\ Len(running') <= 1
       /\ (HandlerRunning /\ HandlerRunning') => running' = running]_vars

\* the handler of SetupStatus is past the time.Sleep of the WriteData of its
\* AddKey; the main goroutine has meanwhile issued and written its
\* SendMessage; Read has received and invoked nothing since
C23_Witness ==
    /\ hpc = "write2"
    /\ rpc = "handler"
    /\ running = <<[handler |-> "onSetupStatus", args |-> <<>>]>>
    /\ Len(frames) = 1
    /\ Len(calls) = 1
    /\ Len(epOutLog) = 2
    /\ epOutLog[1].by = "Read" /\ ~epOutLog[1].ok
    /\ epOutLog[2].by = "caller" /\ epOutLog[2].ok

\* the place of the command of a transport write among all the commands
\* issued, by any goroutine
IssueIndex(w) ==
    CHOOSE i \in 1..Len(issued) : issued[i] = [by |-> w.by, call |-> w.call]

\* two transport writes made by the same goroutine
SameCaller(v, w) == v.by = w.by

\* C24: the commands one caller issues one after another reach the transport
\* in the order of their calls, retries included: every write attempt of a
\* command comes before every attempt of that caller's next command; a
\* command is written at most twice, and the second time only after its
\* first write failed, so that it has at most one successful write; two
\* writes of the same goroutine are never in another order than their
\* commands were issued in, so that only writes of different goroutines
\* can be.
C24_SerialCallerKeepsOrder ==
    \A j \in 1..Len(epOutLog) :
        \A i \in 1..(j - 1) :
            SameCaller(epOutLog[i], epOutLog[j]) =>
              /\ epOutLog[i].call <= epOutLog[j].call
              /\ IssueIndex(epOutLog[i]) <= IssueIndex(epOutLog[j])
              /\ epOutLog[i].call = epOutLog[j].call =>
                    /\ ~epOutLog[i].ok
                    /\ epOutLog[j].data = epOutLog[i].data
                    /\ \A k \in 1..(i - 1) :
                          ~(/\ SameCaller(epOutLog[k], epOutLog[j])
                            /\ epOutLog[k].call = epOutLog[j].call)

\* the first AddKey of the handlers failed once, the SendMessage main issued
\* after it was written before the retry of that AddKey, and the second
\* AddKey of the handlers was written after both
C24_Witness ==
    /\ issued = << [by |-> "Read", call |-> 1],
                   [by |-> "caller", call |-> 1],
                   [by |-> "Read", call |-> 2] >>
    /\ Len(epOutLog) = 4
    /\ epOutLog[1].by = "Read" /\ epOutLog[1].call = 1 /\ ~epOutLog[1].ok
    /\ epOutLog[2].by = "caller" /\ epOutLog[2].ok
    /\ epOutLog[3].by = "Read" /\ epOutLog[3].call = 1 /\ epOutLog[3].ok
    /\ epOutLog[4].by = "Read" /\ epOutLog[4].call = 2 /\ epOutLog[4].ok

=============================================================================
